---- MODULE Spec2Model ----
(***************************************************************************)
(* The GGM puncturable PRF of ppoprf/src/ggm.rs.                           *)
(*                                                                         *)
(* A bit is a BOOLEAN, a bit vector a sequence of bits (index 1 of the     *)
(* sequence is index 0 of the BitVec).  A 32-byte PRG output is modelled   *)
(* symbolically: it is the sequence that starts with the sampled secret    *)
(* and lists, in order, the HMAC keys that were applied to it, so two      *)
(* outputs are equal exactly when they were derived the same way.          *)
(* A panic of the source ends the call; the model records its message in   *)
(* `last` and keeps the tree as the unwinding leaves it.                   *)
(***************************************************************************)
EXTENDS Integers, Sequences, FiniteSets, TLC

\* Bits of one input byte in Spec (a u8 has 8 in the source).
NBits == 3
\* Bits of one input byte in SpecAll, where every input gets punctured.
AllBits == 2
\* Successful punctures allowed in one behaviour of Spec.
MaxPunct == 2
\* Bits of one input byte in SpecWork, where PRG applications are counted.
WorkBits == 4
\* Successful punctures allowed in one behaviour of SpecWork.
WorkPunct == 1

\* The secret sample_secret returns in GGMPuncturableKey::new, as a symbol.
Secrets == {"s0"}
\* The HMAC keys of the two GGMPseudorandomGenerator::setup calls.
PrgKeys == <<"k0", "k1">>

VARIABLES
    inp_len,    \* GGM.inp_len, in bytes
    byte_bits,  \* bits per input byte
    prgs,       \* GGMPuncturableKey.prgs
    prefixes,   \* GGMPuncturableKey.prefixes: sequence of <<bits, value>>
    punctured,  \* GGMPuncturableKey.punctured: sequence of bit vectors
    secret,     \* the secret sampled by GGMPuncturableKey::new
    punct_len,  \* history: pfx_len of each successful puncture, as in punctured
    last,       \* outcome of the last eval / puncture call
    pending     \* the puncture that is between its remove and its extend

vars == <<inp_len, byte_bits, prgs, prefixes, punctured, secret, punct_len, last,
          pending>>

----------------------------------------------------------------------------
(* Bit vectors *)

RECURSIVE Pow2(_)
Pow2(n) == IF n = 0 THEN 1 ELSE 2 * Pow2(n - 1)

Bytes(w) == 0 .. (Pow2(w) - 1)

\* BitVec::<Lsb0, u8>::from_slice: bit i of a byte is its i-th least
\* significant bit; the bytes follow one another.
RECURSIVE from_slice(_, _)
from_slice(input, w) ==
    IF input = <<>> THEN <<>>
    ELSE [i \in 1..w |-> ((Head(input) \div Pow2(i - 1)) % 2) = 1]
         \o from_slice(Tail(input), w)

\* bvcast_u8_to_usize pushes the bits one by one into a new vector.
RECURSIVE bvcast_u8_to_usize_from(_, _, _)
bvcast_u8_to_usize_from(bv_u8, i, bv_us) ==
    IF i > Len(bv_u8) THEN bv_us
    ELSE bvcast_u8_to_usize_from(bv_u8, i + 1, Append(bv_us, bv_u8[i]))

bvcast_u8_to_usize(bv_u8) == bvcast_u8_to_usize_from(bv_u8, 1, <<>>)

starts_with(bv, bits) ==
    /\ Len(bits) <= Len(bv)
    /\ SubSeq(bv, 1, Len(bits)) = bits

----------------------------------------------------------------------------
(* GGMPseudorandomGenerator *)

GGMPseudorandomGenerator_eval(prg, input) == Append(input, prg)

----------------------------------------------------------------------------
(* GGMPuncturableKey *)

GGMPuncturableKey_new(s, ks) ==
    LET prg0 == ks[1]
        out0 == GGMPseudorandomGenerator_eval(prg0, <<s>>)
        prg1 == ks[2]
        out1 == GGMPseudorandomGenerator_eval(prg1, <<s>>)
    IN [prgs      |-> <<prg0, prg1>>,
        prefixes  |-> << <<(<<FALSE>>), out0>>, <<(<<TRUE>>), out1>> >>,
        punctured |-> <<>>]

NoPrefix == <<(<<>>), (<<>>)>>

RECURSIVE find_prefix_from(_, _, _)
find_prefix_from(key_prefixes, bv, i) ==
    IF i > Len(key_prefixes) THEN [ok |-> FALSE, pfx |-> NoPrefix]
    ELSE IF starts_with(bv, key_prefixes[i][1])
         THEN [ok |-> TRUE, pfx |-> key_prefixes[i]]
         ELSE find_prefix_from(key_prefixes, bv, i + 1)

find_prefix(key, bv) == find_prefix_from(key.prefixes, bv, 1)

\* Iterator::position over the prefixes; 0 when none has these bits.
RECURSIVE position_from(_, _, _)
position_from(key_prefixes, bits, i) ==
    IF i > Len(key_prefixes) THEN 0
    ELSE IF key_prefixes[i][1] = bits THEN i
         ELSE position_from(key_prefixes, bits, i + 1)

\* Vec::remove
remove(v, index) == SubSeq(v, 1, index - 1) \o SubSeq(v, index + 1, Len(v))

\* Faulty variants of GGMPuncturableKey::puncture.
\* The covering entry is kept in the Frontier.
puncture_keep(key, pfx, to_punc, new_prefixes) ==
    IF \E k \in 1..Len(key.punctured) : key.punctured[k] = pfx
    THEN [err |-> "AlreadyPunctured", key |-> key]
    ELSE LET index == position_from(key.prefixes, pfx, 1) IN
         IF index # 0
         THEN [err |-> "Ok",
               key |-> [prgs      |-> key.prgs,
                        prefixes  |-> key.prefixes \o new_prefixes,
                        punctured |-> Append(key.punctured, to_punc)]]
         ELSE [err |-> "NoPrefixFound", key |-> key]

\* The Punctured set is overwritten instead of extended.
puncture_overwrite(key, pfx, to_punc, new_prefixes) ==
    IF \E k \in 1..Len(key.punctured) : key.punctured[k] = pfx
    THEN [err |-> "AlreadyPunctured", key |-> key]
    ELSE LET index == position_from(key.prefixes, pfx, 1) IN
         IF index # 0
         THEN [err |-> "Ok",
               key |-> [prgs      |-> key.prgs,
                        prefixes  |-> remove(key.prefixes, index) \o new_prefixes,
                        punctured |-> <<to_punc>>]]
         ELSE [err |-> "NoPrefixFound", key |-> key]

\* The first entry is removed, whichever entry covers the input.
puncture_removefirst(key, pfx, to_punc, new_prefixes) ==
    IF \E k \in 1..Len(key.punctured) : key.punctured[k] = pfx
    THEN [err |-> "AlreadyPunctured", key |-> key]
    ELSE LET index == position_from(key.prefixes, pfx, 1) IN
         IF index # 0
         THEN [err |-> "Ok",
               key |-> [prgs      |-> key.prgs,
                        prefixes  |-> remove(key.prefixes, 1) \o new_prefixes,
                        punctured |-> Append(key.punctured, to_punc)]]
         ELSE [err |-> "NoPrefixFound", key |-> key]

\* The leaf is recorded before the covering entry is looked up.
puncture_pushfirst(key, pfx, to_punc, new_prefixes) ==
    IF \E k \in 1..Len(key.punctured) : key.punctured[k] = pfx
    THEN [err |-> "AlreadyPunctured", key |-> key]
    ELSE LET index == position_from(key.prefixes, pfx, 1) IN
         IF index # 0
         THEN [err |-> "Ok",
               key |-> [prgs      |-> key.prgs,
                        prefixes  |-> remove(key.prefixes, index) \o new_prefixes,
                        punctured |-> Append(key.punctured, to_punc)]]
         ELSE [err |-> "NoPrefixFound",
               key |-> [key EXCEPT !.punctured = Append(@, to_punc)]]

\* The replacement entries are not inserted.
puncture_noextend(key, pfx, to_punc, new_prefixes) ==
    IF \E k \in 1..Len(key.punctured) : key.punctured[k] = pfx
    THEN [err |-> "AlreadyPunctured", key |-> key]
    ELSE LET index == position_from(key.prefixes, pfx, 1) IN
         IF index # 0
         THEN [err |-> "Ok",
               key |-> [prgs      |-> key.prgs,
                        prefixes  |-> remove(key.prefixes, index),
                        punctured |-> Append(key.punctured, to_punc)]]
         ELSE [err |-> "NoPrefixFound", key |-> key]

GGMPuncturableKey_puncture(key, pfx, to_punc, new_prefixes) ==
    IF \E k \in 1..Len(key.punctured) : key.punctured[k] = pfx
    THEN [err |-> "AlreadyPunctured", key |-> key]
    ELSE LET index == position_from(key.prefixes, pfx, 1) IN
         IF index # 0
         THEN [err |-> "Ok",
               key |-> [prgs      |-> key.prgs,
                        prefixes  |-> remove(key.prefixes, index) \o new_prefixes,
                        punctured |-> Append(key.punctured, to_punc)]]
         ELSE [err |-> "NoPrefixFound", key |-> key]

----------------------------------------------------------------------------
(* GGM *)

\* Faulty variant of the first write: the covering entry stays in place
\* until the replacement entries are inserted.
puncture_remove_deferred(key, pfx) ==
    IF \E k \in 1..Len(key.punctured) : key.punctured[k] = pfx
    THEN [err |-> "AlreadyPunctured", index |-> 0, key |-> key]
    ELSE LET index == position_from(key.prefixes, pfx, 1) IN
         IF index # 0
         THEN [err |-> "Ok", index |-> index, key |-> key]
         ELSE [err |-> "NoPrefixFound", index |-> 0, key |-> key]

\* GGMPuncturableKey::puncture up to and including self.prefixes.remove:
\* the first of its writes.
GGMPuncturableKey_puncture_remove(key, pfx) ==
    IF \E k \in 1..Len(key.punctured) : key.punctured[k] = pfx
    THEN [err |-> "AlreadyPunctured", index |-> 0, key |-> key]
    ELSE LET index == position_from(key.prefixes, pfx, 1) IN
         IF index # 0
         THEN [err |-> "Ok", index |-> index,
               key |-> [key EXCEPT !.prefixes = remove(key.prefixes, index)]]
         ELSE [err |-> "NoPrefixFound", index |-> 0, key |-> key]

\* GGMPuncturableKey::puncture from self.prefixes.extend on: the remaining
\* writes.
GGMPuncturableKey_puncture_insert(key, to_punc, new_prefixes) ==
    [prgs      |-> key.prgs,
     prefixes  |-> IF new_prefixes # <<>> THEN key.prefixes \o new_prefixes
                   ELSE key.prefixes,
     punctured |-> Append(key.punctured, to_punc)]

\* Faulty variant of GGM::bit_eval: the two PRGs are taken the wrong way
\* round.
RECURSIVE bit_eval_swapped(_, _, _)
bit_eval_swapped(key, bits, prg_inp) ==
    IF bits = <<>> THEN prg_inp
    ELSE LET prg == IF Head(bits) THEN key.prgs[1] ELSE key.prgs[2]
         IN bit_eval_swapped(key, Tail(bits),
                             GGMPseudorandomGenerator_eval(prg, prg_inp))

RECURSIVE bit_eval(_, _, _)
bit_eval(key, bits, prg_inp) ==
    IF bits = <<>> THEN prg_inp
    ELSE LET prg == IF Head(bits) THEN key.prgs[2] ELSE key.prgs[1]
         IN bit_eval(key, Tail(bits), GGMPseudorandomGenerator_eval(prg, prg_inp))

partial_eval(key, input_bits) ==
    LET res == find_prefix(key, input_bits) IN
    IF res.ok
    THEN LET tail  == res.pfx[2]
             right == SubSeq(input_bits, Len(res.pfx[1]) + 1, Len(input_bits))
         IN [err |-> "Ok", output |-> bit_eval(key, right, tail)]
    ELSE [err |-> "NoPrefixFound", output |-> <<>>]

GGM_setup(s, ks) == [inp_len |-> 1, key |-> GGMPuncturableKey_new(s, ks)]

\* Faulty variant of GGM::eval: only inputs that are too short are refused.
GGM_eval_shortonly(self, w, input) ==
    IF Len(input) < self.inp_len
    THEN [err |-> "LengthMismatch", panic |-> "Input length does not match input param",
          output |-> <<>>]
    ELSE LET input_bits == bvcast_u8_to_usize(from_slice(input, w))
             r == partial_eval(self.key, input_bits)
         IN IF r.err # "Ok"
            THEN [err |-> r.err, panic |-> "Error occurred", output |-> <<>>]
            ELSE [err |-> "Ok", panic |-> "", output |-> r.output]

GGM_eval(self, w, input) ==
    IF Len(input) # self.inp_len
    THEN [err |-> "LengthMismatch", panic |-> "Input length does not match input param",
          output |-> <<>>]
    ELSE LET input_bits == bvcast_u8_to_usize(from_slice(input, w))
             r == partial_eval(self.key, input_bits)
         IN IF r.err # "Ok"
            THEN [err |-> r.err, panic |-> "Error occurred", output |-> <<>>]
            ELSE [err |-> "Ok", panic |-> "", output |-> r.output]

\* Faulty variants of the sibling loop of GGM::puncture.
\* The last bit is not flipped.
RECURSIVE sibling_loop_noflip(_, _, _, _, _)
sibling_loop_noflip(key, pfx, i, iter_bv, new_pfxs) ==
    IF i < 0 THEN [panic |-> "", new_pfxs |-> new_pfxs]
    ELSE IF iter_bv = <<>>
    THEN [panic |-> "Unexpected end of input", new_pfxs |-> new_pfxs]
    ELSE LET pfx_len == Len(pfx[1])
             rest    == SubSeq(iter_bv, 1, Len(iter_bv) - 1)
         IN IF i + 1 > Len(iter_bv) \/ pfx_len > Len(iter_bv)
            THEN [panic |-> "index out of bounds", new_pfxs |-> new_pfxs]
            ELSE LET cbv   == iter_bv
                     split == SubSeq(cbv, pfx_len + 1, Len(cbv))
                     out   == bit_eval(key, split, pfx[2])
                     acc   == Append(new_pfxs, <<cbv, out>>)
                 IN IF Len(rest) = pfx_len
                    THEN [panic |-> "", new_pfxs |-> acc]
                    ELSE sibling_loop_noflip(key, pfx, i - 1, rest, acc)

\* The sibling's value is derived along all of its bits, not only along
\* those below the covering prefix.
RECURSIVE sibling_loop_nosplit(_, _, _, _, _)
sibling_loop_nosplit(key, pfx, i, iter_bv, new_pfxs) ==
    IF i < 0 THEN [panic |-> "", new_pfxs |-> new_pfxs]
    ELSE IF iter_bv = <<>>
    THEN [panic |-> "Unexpected end of input", new_pfxs |-> new_pfxs]
    ELSE LET pfx_len == Len(pfx[1])
             lastb   == iter_bv[Len(iter_bv)]
             rest    == SubSeq(iter_bv, 1, Len(iter_bv) - 1)
         IN IF i + 1 > Len(iter_bv) \/ pfx_len > Len(iter_bv)
            THEN [panic |-> "index out of bounds", new_pfxs |-> new_pfxs]
            ELSE LET cbv   == [iter_bv EXCEPT ![i + 1] = ~lastb]
                     out   == bit_eval(key, cbv, pfx[2])
                     acc   == Append(new_pfxs, <<cbv, out>>)
                 IN IF Len(rest) = pfx_len
                    THEN [panic |-> "", new_pfxs |-> acc]
                    ELSE sibling_loop_nosplit(key, pfx, i - 1, rest, acc)

\* The loop does not break at the covering prefix.
RECURSIVE sibling_loop_nobreak(_, _, _, _, _)
sibling_loop_nobreak(key, pfx, i, iter_bv, new_pfxs) ==
    IF i < 0 THEN [panic |-> "", new_pfxs |-> new_pfxs]
    ELSE IF iter_bv = <<>>
    THEN [panic |-> "Unexpected end of input", new_pfxs |-> new_pfxs]
    ELSE LET pfx_len == Len(pfx[1])
             lastb   == iter_bv[Len(iter_bv)]
             rest    == SubSeq(iter_bv, 1, Len(iter_bv) - 1)
         IN IF i + 1 > Len(iter_bv)
            THEN [panic |-> "index out of bounds", new_pfxs |-> new_pfxs]
            ELSE LET cbv   == [iter_bv EXCEPT ![i + 1] = ~lastb]
                     split == SubSeq(cbv, pfx_len + 1, Len(cbv))
                     out   == bit_eval(key, split, pfx[2])
                     acc   == Append(new_pfxs, <<cbv, out>>)
                 IN sibling_loop_nobreak(key, pfx, i - 1, rest, acc)

\* The sibling loop of GGM::puncture, `for i in (0..bv.len()).rev()`, from
\* index i downwards (i is the 0-based index of the source).
\* The loop stops one level early and leaves out the sibling next to the
\* covering prefix.
RECURSIVE sibling_loop_earlybreak(_, _, _, _, _)
sibling_loop_earlybreak(key, pfx, i, iter_bv, new_pfxs) ==
    IF i < 0 THEN [panic |-> "", new_pfxs |-> new_pfxs]
    ELSE IF iter_bv = <<>>
    THEN [panic |-> "Unexpected end of input", new_pfxs |-> new_pfxs]
    ELSE LET pfx_len == Len(pfx[1])
             lastb   == iter_bv[Len(iter_bv)]
             rest    == SubSeq(iter_bv, 1, Len(iter_bv) - 1)
         IN IF i + 1 > Len(iter_bv) \/ pfx_len > Len(iter_bv)
            THEN [panic |-> "index out of bounds", new_pfxs |-> new_pfxs]
            ELSE LET cbv   == [iter_bv EXCEPT ![i + 1] = ~lastb]
                     split == SubSeq(cbv, pfx_len + 1, Len(cbv))
                     out   == bit_eval(key, split, pfx[2])
                     acc   == Append(new_pfxs, <<cbv, out>>)
                 IN IF Len(rest) <= pfx_len + 1
                    THEN [panic |-> "", new_pfxs |-> acc]
                    ELSE sibling_loop_earlybreak(key, pfx, i - 1, rest, acc)

RECURSIVE sibling_loop(_, _, _, _, _)
sibling_loop(key, pfx, i, iter_bv, new_pfxs) ==
    IF i < 0 THEN [panic |-> "", new_pfxs |-> new_pfxs]
    ELSE IF iter_bv = <<>>
    THEN [panic |-> "Unexpected end of input", new_pfxs |-> new_pfxs]
    ELSE LET pfx_len == Len(pfx[1])
             lastb   == iter_bv[Len(iter_bv)]
             rest    == SubSeq(iter_bv, 1, Len(iter_bv) - 1)
         IN IF i + 1 > Len(iter_bv) \/ pfx_len > Len(iter_bv)
            THEN [panic |-> "index out of bounds", new_pfxs |-> new_pfxs]
            ELSE LET cbv   == [iter_bv EXCEPT ![i + 1] = ~lastb]
                     split == SubSeq(cbv, pfx_len + 1, Len(cbv))
                     out   == bit_eval(key, split, pfx[2])
                     acc   == Append(new_pfxs, <<cbv, out>>)
                 IN IF Len(rest) = pfx_len
                    THEN [panic |-> "", new_pfxs |-> acc]
                    ELSE sibling_loop(key, pfx, i - 1, rest, acc)

\* Faulty variant of GGM::puncture: the sibling loop also runs when the
\* covering prefix has the full length.
GGM_puncture_noexact(self, w, input) ==
    IF Len(input) # self.inp_len
    THEN [err |-> "LengthMismatch", panic |-> "Input length does not match input param",
          pfx_len |-> 0, self |-> self]
    ELSE LET bv  == bvcast_u8_to_usize(from_slice(input, w))
             res == find_prefix(self.key, bv)
         IN IF ~res.ok
            THEN [err |-> "NoPrefixFound", panic |-> "No prefix found",
                  pfx_len |-> 0, self |-> self]
            ELSE LET pfx     == res.pfx
                     pfx_len == Len(pfx[1])
                     loop    == sibling_loop(self.key, pfx, Len(bv) - 1, bv, <<>>)
                 IN IF loop.panic # ""
                    THEN [err |-> "Panic", panic |-> loop.panic,
                          pfx_len |-> pfx_len, self |-> self]
                    ELSE LET p == GGMPuncturableKey_puncture(self.key, pfx[1], bv,
                                                             loop.new_pfxs)
                         IN IF p.err # "Ok"
                            THEN [err |-> p.err, panic |-> "Problem puncturing key",
                                  pfx_len |-> pfx_len, self |-> self]
                            ELSE [err |-> "Ok", panic |-> "", pfx_len |-> pfx_len,
                                  self |-> [inp_len |-> self.inp_len, key |-> p.key]]

GGM_puncture(self, w, input) ==
    IF Len(input) # self.inp_len
    THEN [err |-> "LengthMismatch", panic |-> "Input length does not match input param",
          pfx_len |-> 0, self |-> self]
    ELSE LET bv  == bvcast_u8_to_usize(from_slice(input, w))
             res == find_prefix(self.key, bv)
         IN IF ~res.ok
            THEN [err |-> "NoPrefixFound", panic |-> "No prefix found",
                  pfx_len |-> 0, self |-> self]
            ELSE LET pfx     == res.pfx
                     pfx_len == Len(pfx[1])
                     loop    == IF pfx_len # Len(bv)
                                THEN sibling_loop(self.key, pfx, Len(bv) - 1, bv, <<>>)
                                ELSE [panic |-> "", new_pfxs |-> <<>>]
                 IN IF loop.panic # ""
                    THEN [err |-> "Panic", panic |-> loop.panic,
                          pfx_len |-> pfx_len, self |-> self]
                    ELSE LET p == GGMPuncturableKey_puncture(self.key, pfx[1], bv,
                                                             loop.new_pfxs)
                         IN IF p.err # "Ok"
                            THEN [err |-> p.err, panic |-> "Problem puncturing key",
                                  pfx_len |-> pfx_len, self |-> self]
                            ELSE [err |-> "Ok", panic |-> "", pfx_len |-> pfx_len,
                                  self |-> [inp_len |-> self.inp_len, key |-> p.key]]

----------------------------------------------------------------------------
(* The state machine *)

Self == [inp_len |-> inp_len,
         key |-> [prgs |-> prgs, prefixes |-> prefixes, punctured |-> punctured]]

\* Inputs of the right length: every byte value.
ValidInputs == {<<b>> : b \in Bytes(byte_bits)}

\* Inputs of a wrong length: one byte too short and one byte too long.
RECURSIVE SlicesOfLen(_)
SlicesOfLen(n) ==
    IF n = 0 THEN {<<>>}
    ELSE {Append(s, b) : s \in SlicesOfLen(n - 1), b \in 0..1}

BadInputs == SlicesOfLen(inp_len - 1) \cup SlicesOfLen(inp_len + 1)

Inputs == ValidInputs \cup BadInputs

\* No call has been made since the caller took the last outcome.
NoCall == [op |-> "none", input |-> <<>>, err |-> "Ok", panic |-> "",
           output |-> <<>>, pfx_len |-> 0]

\* No puncture is between its two writes of the Frontier.
NoPending == [input |-> <<>>, to_punc |-> <<>>, pfx |-> NoPrefix, index |-> 0,
              new_prefixes |-> <<>>]

InitWith(w) ==
    \E s \in Secrets :
        \E g \in {GGM_setup(s, PrgKeys)} :
            /\ inp_len = g.inp_len
            /\ byte_bits = w
            /\ prgs = g.key.prgs
            /\ prefixes = g.key.prefixes
            /\ punctured = g.key.punctured
            /\ secret = s
            /\ punct_len = <<>>
            /\ last = NoCall
            /\ pending = NoPending

Init == InitWith(NBits)

\* Faulty variant of the eval call: the entry found is taken out of the
\* Frontier.
Eval_consume(input) ==
    /\ last = NoCall
    /\ \E r \in {GGM_eval(Self, byte_bits, input)} :
           last' = [op |-> "eval", input |-> input, err |-> r.err, panic |-> r.panic,
                    output |-> r.output, pfx_len |-> 0]
    /\ prefixes' = [k \in 1..(Len(prefixes) - 1) |-> prefixes[k + 1]]
    /\ UNCHANGED <<inp_len, byte_bits, prgs, punctured, secret, punct_len, pending>>

Eval(input) ==
    /\ last = NoCall
    /\ \E r \in {GGM_eval(Self, byte_bits, input)} :
           last' = [op |-> "eval", input |-> input, err |-> r.err, panic |-> r.panic,
                    output |-> r.output, pfx_len |-> 0]
    /\ UNCHANGED <<inp_len, byte_bits, prgs, prefixes, punctured, secret, punct_len,
                   pending>>

DoPuncture(input) ==
    /\ last = NoCall
    /\ \E r \in {GGM_puncture(Self, byte_bits, input)} :
           /\ inp_len' = r.self.inp_len
           /\ prgs' = r.self.key.prgs
           /\ prefixes' = r.self.key.prefixes
           /\ punctured' = r.self.key.punctured
           /\ punct_len' = IF r.err = "Ok" THEN Append(punct_len, r.pfx_len)
                           ELSE punct_len
           /\ last' = [op |-> "puncture", input |-> input, err |-> r.err,
                       panic |-> r.panic, output |-> <<>>, pfx_len |-> r.pfx_len]
    /\ UNCHANGED <<byte_bits, secret, pending>>

\* A call of puncture; a behaviour holds at most MaxPunct successful ones.
Puncture(input) ==
    /\ last = NoCall
    /\ \/ Len(punctured) < MaxPunct
       \/ ~(\E k \in 1..Len(prefixes) :
              starts_with(bvcast_u8_to_usize(from_slice(input, byte_bits)),
                          prefixes[k][1]))
       \/ Len(input) # inp_len
    /\ DoPuncture(input)

\* The caller takes the outcome of the call (the output, or the panic it
\* caught); the tree stays as the call left it.
Return ==
    /\ last # NoCall
    /\ last' = NoCall
    /\ UNCHANGED <<inp_len, byte_bits, prgs, prefixes, punctured, secret, punct_len,
                   pending>>

Next ==
    \/ \E input \in Inputs : Eval(input)
    \/ \E input \in Inputs : Puncture(input)
    \/ Return

Spec == Init /\ [][Next]_vars

\* Exhaustive puncture (tests::puncture_all): a fresh tree of AllBits-bit
\* inputs on which values not yet punctured get punctured, in any order.
InitAll == InitWith(AllBits)

PunctureAll(input) ==
    /\ last = NoCall
    /\ \A k \in 1..Len(punctured) :
           punctured[k] # bvcast_u8_to_usize(from_slice(input, byte_bits))
    /\ DoPuncture(input)

NextAll ==
    \/ \E input \in ValidInputs : PunctureAll(input)
    \/ Return

SpecAll == InitAll /\ [][NextAll]_vars

\* Calls that are not kept apart (the FFI hands out &Server and &mut Server
\* from the same raw pointer without a lock): a puncture whose two writes
\* of the Frontier are separate steps, with eval calls running at any time.
\* PunctureBegin is GGM::puncture on a covered input up to the removal of
\* the covering entry.
PunctureBegin(input) ==
    /\ last = NoCall
    /\ pending = NoPending
    /\ Len(punctured) < MaxPunct
    /\ Len(input) = inp_len
    /\ \E bv \in {bvcast_u8_to_usize(from_slice(input, byte_bits))} :
       \E res \in {find_prefix(Self.key, bv)} :
           /\ res.ok
           /\ \E loop \in {IF Len(res.pfx[1]) # Len(bv)
                           THEN sibling_loop(Self.key, res.pfx, Len(bv) - 1, bv, <<>>)
                           ELSE [panic |-> "", new_pfxs |-> <<>>]} :
              \E rm \in {GGMPuncturableKey_puncture_remove(Self.key, res.pfx[1])} :
                  /\ loop.panic = ""
                  /\ rm.err = "Ok"
                  /\ prefixes' = rm.key.prefixes
                  /\ pending' = [input |-> input, to_punc |-> bv, pfx |-> res.pfx,
                                 index |-> rm.index, new_prefixes |-> loop.new_pfxs]
    /\ UNCHANGED <<inp_len, byte_bits, prgs, punctured, secret, punct_len, last>>

\* The rest of that puncture: the replacement entries are inserted, the
\* leaf is recorded and the call returns Ok.
PunctureEnd ==
    /\ last = NoCall
    /\ pending # NoPending
    /\ \E k \in {GGMPuncturableKey_puncture_insert(Self.key, pending.to_punc,
                                                   pending.new_prefixes)} :
           /\ prefixes' = k.prefixes
           /\ punctured' = k.punctured
    /\ punct_len' = Append(punct_len, Len(pending.pfx[1]))
    /\ last' = [op |-> "puncture", input |-> pending.input, err |-> "Ok",
                panic |-> "", output |-> <<>>, pfx_len |-> Len(pending.pfx[1])]
    /\ pending' = NoPending
    /\ UNCHANGED <<inp_len, byte_bits, prgs, secret>>

NextConc ==
    \/ \E input \in ValidInputs : Eval(input)
    \/ \E input \in ValidInputs : PunctureBegin(input)
    \/ PunctureEnd
    \/ Return

SpecConc == Init /\ [][NextConc]_vars

\* Calls on a tree of WorkBits-bit inputs: evals at any time and at most
\* WorkPunct punctures.
InitWork == InitWith(WorkBits)

PunctureWork(input) ==
    /\ last = NoCall
    /\ Len(punctured) < WorkPunct
    /\ DoPuncture(input)

NextWork ==
    \/ \E input \in ValidInputs : Eval(input)
    \/ \E input \in ValidInputs : PunctureWork(input)
    \/ Return

SpecWork == InitWork /\ [][NextWork]_vars

----------------------------------------------------------------------------
(* Vocabulary of the properties *)

\* The bit vector eval and puncture derive from an input.
BitsOf(input) == bvcast_u8_to_usize(from_slice(input, byte_bits))

\* Configured width N, in bits.
Width == inp_len * byte_bits

Range(s) == {s[k] : k \in 1..Len(s)}

PuncturedSet == Range(punctured)

\* The fresh, never-punctured tree with the same secret and PRG keys.
FreshTree == GGM_setup(secret, prgs)

Reverse(s) == [k \in 1..Len(s) |-> s[Len(s) + 1 - k]]

\* The tree after the step.
SelfNext == [inp_len |-> inp_len',
             key |-> [prgs |-> prgs', prefixes |-> prefixes', punctured |-> punctured']]

----------------------------------------------------------------------------
(* C1 .. C3 *)

\* C1 (puncture exclusivity): whenever a call can be made, eval(x) fails
\* with NoPrefixFound for every input x of the configured width that a
\* successful puncture has recorded, whatever was punctured or evaluated
\* since; and every eval call made on such an x reported NoPrefixFound.
C1_PunctureExclusivity ==
    /\ last = NoCall =>
           \A x \in ValidInputs :
               BitsOf(x) \in PuncturedSet =>
                   GGM_eval(Self, byte_bits, x).err = "NoPrefixFound"
    /\ last.op = "eval" /\ BitsOf(last.input) \in PuncturedSet =>
           last.err = "NoPrefixFound" /\ last.output = <<>>

\* An eval of the first punctured input failed after a second, different
\* input had been punctured as well.
C1_Witness ==
    /\ Len(punctured) = 2
    /\ last.op = "eval"
    /\ BitsOf(last.input) = punctured[1]
    /\ last.err = "NoPrefixFound"

\* C2 (puncture locality): whenever a call can be made, every input y that
\* has not been punctured evaluates, after any punctures of other inputs, to
\* the output the fresh tree with the same secret and PRG keys gives for y;
\* and every eval call made on such a y returned that output.
C2_PunctureLocality ==
    /\ last = NoCall =>
           \A y \in ValidInputs :
               BitsOf(y) \notin PuncturedSet =>
                   LET now   == GGM_eval(Self, byte_bits, y)
                       fresh == GGM_eval(FreshTree, byte_bits, y)
                   IN /\ fresh.err = "Ok"
                      /\ now.err = "Ok"
                      /\ now.output = fresh.output
    /\ last.op = "eval" /\ Len(last.input) = inp_len
          /\ BitsOf(last.input) \notin PuncturedSet =>
           /\ last.err = "Ok"
           /\ last.output = GGM_eval(FreshTree, byte_bits, last.input).output

\* An eval succeeded through a replacement entry (a prefix longer than one
\* bit) that a puncture of another input under the same prefix created.
C2_Witness ==
    /\ Len(punctured) = 2
    /\ last.op = "eval"
    /\ last.err = "Ok"
    /\ last.output = GGM_eval(FreshTree, byte_bits, last.input).output
    /\ Len(find_prefix(Self.key, BitsOf(last.input)).pfx[1]) = Width
    /\ SubSeq(BitsOf(last.input), 1, Width - 1) = SubSeq(punctured[2], 1, Width - 1)

\* C3 (determinism / pure read): a step that is an eval call leaves the
\* Frontier, the Punctured set, the PRGs and the input width unchanged; on a
\* live input it returns an output, the same that the next eval of that
\* input returns; taking the outcome of a call changes nothing of the tree
\* either.
C3_EvalPureRead ==
    [][ /\ last'.op = "eval" =>
              /\ UNCHANGED <<prefixes, punctured, prgs, inp_len, byte_bits>>
              /\ Len(last'.input) = inp_len
                    /\ BitsOf(last'.input) \notin PuncturedSet =>
                     /\ last'.err = "Ok"
                     /\ last'.output # <<>>
                     /\ GGM_eval(SelfNext, byte_bits', last'.input).err = "Ok"
                     /\ GGM_eval(SelfNext, byte_bits', last'.input).output
                            = last'.output
        /\ last'.op = "none" => UNCHANGED <<prefixes, punctured, prgs, inp_len>>
      ]_vars

\* An eval of a live input succeeded on a tree that has been punctured.
C3_Witness ==
    /\ last.op = "eval"
    /\ last.err = "Ok"
    /\ Len(punctured) = 2
    /\ BitsOf(last.input) \notin PuncturedSet

----------------------------------------------------------------------------
(* C4 .. C6 *)

\* Some entry of the Frontier pfxs has a prefix of bv as its prefix.
CoveredBy(pfxs, bv) == \E k \in 1..Len(pfxs) : starts_with(bv, pfxs[k][1])

\* C4 (Punctured is terminal): a step that is no puncture call leaves the
\* Frontier and the Punctured set as they are; a puncture call keeps the
\* Punctured set and appends its input exactly when it succeeds, and after
\* it no punctured leaf, old or new, is covered by a Frontier entry: eval
\* and puncture of such a leaf fail and leave the tree unchanged.
C4_PuncturedTerminal ==
    [][ IF last'.op # "puncture"
        THEN UNCHANGED <<prefixes, punctured>>
        ELSE /\ punctured' = IF last'.err = "Ok"
                             THEN Append(punctured, BitsOf(last'.input))
                             ELSE punctured
             /\ \A x \in ValidInputs :
                    BitsOf(x) \in Range(punctured') =>
                        /\ ~CoveredBy(prefixes', BitsOf(x))
                        /\ GGM_eval(SelfNext, byte_bits', x).err = "NoPrefixFound"
                        /\ GGM_puncture(SelfNext, byte_bits', x).err \notin {"Ok"}
                        /\ GGM_puncture(SelfNext, byte_bits', x).self = SelfNext
      ]_vars

\* A puncture of the first punctured leaf was tried again after a second
\* leaf had been punctured, and failed.
C4_Witness ==
    /\ Len(punctured) = 2
    /\ last.op = "puncture"
    /\ BitsOf(last.input) = punctured[1]
    /\ last.err # "Ok"

\* C5 (exhaustive puncture), in SpecAll: on a fresh tree every puncture of a
\* value not yet punctured succeeds, whatever the order, and once all 2^N
\* values are punctured the Frontier is empty.
C5_ExhaustivePuncture ==
    /\ last.op = "puncture" => last.err = "Ok"
    /\ Len(punctured) = Pow2(Width) => prefixes = <<>>

\* All 2^N values have been punctured, the last one just now.
C5_Witness ==
    /\ Len(punctured) = Pow2(Width)
    /\ Cardinality(PuncturedSet) = Pow2(Width)
    /\ last.op = "puncture"
    /\ last.err = "Ok"
    /\ prefixes = <<>>

\* C6 (length validation): an eval or puncture call whose input is not
\* inp_len bytes long fails with the length-mismatch panic and leaves the
\* Frontier and the Punctured set unchanged.
C6_LengthValidation ==
    [][ last'.op \in {"eval", "puncture"} /\ Len(last'.input) # inp_len =>
          /\ last'.err = "LengthMismatch"
          /\ last'.panic = "Input length does not match input param"
          /\ UNCHANGED <<prefixes, punctured>>
      ]_vars

\* A puncture with a two-byte input was refused on a punctured tree.
C6_Witness ==
    /\ last.op = "puncture"
    /\ Len(last.input) = inp_len + 1
    /\ last.err = "LengthMismatch"
    /\ Len(punctured) = 1

----------------------------------------------------------------------------
(* C7 .. C10 *)

\* The call recorded in last is a puncture of a leaf that an earlier call
\* punctured; k is the place of that earlier puncture in the history.
Repuncture(k) ==
    /\ last.op = "puncture"
    /\ Len(last.input) = inp_len
    /\ k \in 1..Len(punctured)
    /\ punctured[k] = BitsOf(last.input)
    /\ (last.err = "Ok" => k < Len(punctured))

\* C7 (re-puncturing an exact leaf), as claimed: a puncture(x) after a
\* puncture(x) that succeeded as an exact match (covering prefix of the full
\* length N) fails with AlreadyPunctured.
C7_RepunctureAlreadyPunctured ==
    \A k \in 1..Len(punctured) :
        Repuncture(k) /\ punct_len[k] = Width => last.err = "AlreadyPunctured"

\* C8 (idempotent failure): a puncture call on an input of the configured
\* width that no Frontier entry covers fails with NoPrefixFound ("No prefix
\* found"), one on a covered input succeeds; so puncturing again the leaf
\* that was punctured last fails, with NoPrefixFound when that puncture was
\* a partial match.
C8_IdempotentFailure ==
    [][ last'.op = "puncture" /\ Len(last'.input) = inp_len =>
          LET bv == BitsOf(last'.input) IN
          /\ ~CoveredBy(prefixes, bv) =>
                 last'.err = "NoPrefixFound" /\ last'.panic = "No prefix found"
          /\ CoveredBy(prefixes, bv) => last'.err = "Ok"
          /\ punctured # <<>> /\ bv = punctured[Len(punctured)] =>
                 /\ last'.err # "Ok"
                 /\ punct_len[Len(punctured)] < Width => last'.err = "NoPrefixFound"
      ]_vars

\* The leaf punctured last, by a partial match, was punctured again and the
\* call failed with NoPrefixFound.
C8_Witness ==
    /\ Repuncture(Len(punctured))
    /\ punct_len[Len(punctured)] < Width
    /\ last.err = "NoPrefixFound"

\* The replacement entries for a puncture of bv under the covering entry
\* cov: for every length k above the covering prefix's, the first k-1 bits
\* of bv followed by the negated k-th bit, with the value derived from cov's.
SiblingEntries(key, bv, cov) ==
    { <<SubSeq(bv, 1, k - 1) \o <<~bv[k]>>,
        bit_eval(key, SubSeq(bv, Len(cov[1]) + 1, k - 1) \o <<~bv[k]>>, cov[2])>> :
      k \in (Len(cov[1]) + 1) .. Len(bv) }

BitStrings(n) == [1..n -> BOOLEAN]

\* C9 (puncture is all-or-nothing): a puncture call that fails leaves the
\* tree as it was; one that succeeds has removed the covering entry, holds
\* every replacement entry and nothing else new, and has appended the leaf
\* to the Punctured set.  GGMPuncturableKey::puncture itself, on any prefix
\* and leaf, returns the key unchanged with its error, or else the key
\* without the entry of that prefix and with the leaf recorded.
C9_AllOrNothing ==
    [][ /\ last'.op = "puncture" =>
              IF last'.err # "Ok"
              THEN UNCHANGED <<prefixes, punctured, prgs, inp_len>>
              ELSE LET bv   == BitsOf(last'.input)
                       res  == find_prefix(Self.key, bv)
                       repl == SiblingEntries(Self.key, bv, res.pfx)
                   IN /\ res.ok
                      /\ res.pfx \notin Range(prefixes')
                      /\ repl \subseteq Range(prefixes')
                      /\ Range(prefixes') = (Range(prefixes) \ {res.pfx}) \cup repl
                      /\ Len(prefixes') = Len(prefixes) - 1 + Cardinality(repl)
                      /\ punctured' = Append(punctured, bv)
        /\ last'.op = "puncture" =>
           \A n \in 1..Width : \A pfx \in BitStrings(n) :
               \A to_punc \in {[k \in 1..Width |-> TRUE]} :
                   LET new == << <<to_punc, <<secret>> >> >>
                       r   == GGMPuncturableKey_puncture(Self.key, pfx, to_punc, new)
                   IN IF r.err # "Ok"
                      THEN /\ r.key = Self.key
                           /\ r.err = IF pfx \in PuncturedSet THEN "AlreadyPunctured"
                                      ELSE "NoPrefixFound"
                      ELSE /\ \E e \in Range(prefixes) : e[1] = pfx
                           /\ \A e \in Range(r.key.prefixes) :
                                  e[1] # pfx \/ e = new[1]
                           /\ Range(r.key.prefixes) =
                                  {e \in Range(prefixes) : e[1] # pfx} \cup Range(new)
                           /\ r.key.punctured = Append(punctured, to_punc)
      ]_vars

\* A puncture by partial match succeeded on a punctured tree, and the next
\* state holds its replacement entries; a failed puncture changed nothing.
C9_Witness ==
    /\ last.op = "puncture"
    /\ last.err = "Ok"
    /\ Len(punctured) = 2
    /\ last.pfx_len = 1
    /\ Len(prefixes) = 2 * (Width - 1)

\* C10 (antichain): no Frontier prefix is a prefix of, or equal to, the
\* prefix of another entry; so at most one entry matches any full-length
\* bit string and find_prefix finds the same entry whatever the scan order.
C10_Antichain ==
    /\ \A i, j \in 1..Len(prefixes) :
           i # j => ~starts_with(prefixes[i][1], prefixes[j][1])
    /\ \A bv \in BitStrings(Width) :
           /\ Cardinality({k \in 1..Len(prefixes) : starts_with(bv, prefixes[k][1])}) <= 1
           /\ find_prefix_from(Reverse(prefixes), bv, 1) = find_prefix_from(prefixes, bv, 1)

\* After two punctures the Frontier has entries of several lengths, not
\* in order of their prefixes, and an input was found in it.
C10_Witness ==
    /\ Len(punctured) = 2
    /\ \E i, j \in 1..Len(prefixes) :
           i < j /\ Len(prefixes[i][1]) > Len(prefixes[j][1])
    /\ last.op = "eval"
    /\ last.err = "Ok"

----------------------------------------------------------------------------
(* C11, C12 *)

\* The full-length bit strings that some entry of the Frontier pfxs covers.
LeavesOf(pfxs) == {bv \in BitStrings(Width) : CoveredBy(pfxs, bv)}

\* C11 (coverage): in every state the full-length inputs covered by some
\* Frontier entry are exactly the 2^N inputs that are not in the Punctured
\* set; the tree of setup, with the two one-bit entries and no punctured
\* leaf, covers every input.
C11_Coverage ==
    /\ LeavesOf(prefixes) = BitStrings(Width) \ PuncturedSet
    /\ PuncturedSet \subseteq BitStrings(Width)
    /\ punctured = <<>> =>
           /\ [k \in 1..Len(prefixes) |-> prefixes[k][1]] = <<(<<FALSE>>), (<<TRUE>>)>>
           /\ LeavesOf(prefixes) = {BitsOf(x) : x \in ValidInputs}
           /\ Cardinality(LeavesOf(prefixes)) = Pow2(Width)

\* Two leaves under different one-bit prefixes are punctured and the
\* Frontier covers the other 2^N - 2 leaves.
C11_Witness ==
    /\ Len(punctured) = 2
    /\ punctured[1][1] # punctured[2][1]
    /\ Cardinality(LeavesOf(prefixes)) = Pow2(Width) - 2
    /\ last.op = "puncture"
    /\ last.err = "Ok"

\* The GGM derivation of the node p: starting from the secret, for each bit
\* of p in order, the PRG of that bit applied to the value so far.
RECURSIVE DeriveFrom(_, _)
DeriveFrom(v, p) ==
    IF p = <<>> THEN v
    ELSE DeriveFrom(GGMPseudorandomGenerator_eval(IF Head(p) THEN prgs[2] ELSE prgs[1], v),
                    Tail(p))

Derive(p) == DeriveFrom(<<secret>>, p)

\* C12 (value invariant): in every state the value stored with each
\* Frontier prefix p is the GGM derivation of p from the secret sampled in
\* GGMPuncturableKey::new.
C12_ValueInvariant ==
    \A k \in 1..Len(prefixes) : prefixes[k][2] = Derive(prefixes[k][1])

\* The Frontier holds entries of every length from 1 to N, each with the
\* derived value, after a puncture.
C12_Witness ==
    /\ last.op = "puncture"
    /\ last.err = "Ok"
    /\ \A n \in 1..Width : \E k \in 1..Len(prefixes) : Len(prefixes[k][1]) = n
    /\ \A k \in 1..Len(prefixes) : Len(prefixes[k][2]) = Len(prefixes[k][1]) + 1

----------------------------------------------------------------------------
(* C13, C14 *)

\* The entries a successful puncture appended to the Frontier: those behind
\* the entries it kept.
Replacements == SubSeq(prefixes', Len(prefixes), Len(prefixes'))

\* C13 (partial-match replacement set): a successful puncture of x whose
\* covering entry (p, v) is shorter than N appends exactly N-L entries, one
\* of each length k in L+1..N: the first k-1 bits of x followed by the
\* negated k-th bit, with v expanded by the PRGs of the bits of that prefix
\* behind p.  Every leaf under p other than x is under exactly one of them,
\* and x and the leaves outside p are under none.
C13_ReplacementSet ==
    [][ last'.op = "puncture" /\ last'.err = "Ok" /\ last'.pfx_len < Width =>
          LET bv  == BitsOf(last'.input)
              cov == find_prefix(Self.key, bv).pfx
              L   == Len(cov[1])
              new == Replacements
          IN /\ L = last'.pfx_len
             /\ Len(new) = Width - L
             /\ \A k \in (L + 1)..Width :
                    /\ Cardinality({j \in 1..Len(new) : Len(new[j][1]) = k}) = 1
                    /\ \E j \in 1..Len(new) :
                           /\ new[j][1] = SubSeq(bv, 1, k - 1) \o <<~bv[k]>>
                           /\ new[j][2] = DeriveFrom(cov[2], SubSeq(new[j][1], L + 1, k))
             /\ \A leaf \in BitStrings(Width) :
                    Cardinality({j \in 1..Len(new) : starts_with(leaf, new[j][1])})
                        = IF starts_with(leaf, cov[1]) /\ leaf # bv THEN 1 ELSE 0
      ]_vars

\* A puncture succeeded under a replacement entry of an earlier puncture
\* that is itself shorter than N.
C13_Witness ==
    /\ last.op = "puncture"
    /\ last.err = "Ok"
    /\ Len(punctured) = 2
    /\ last.pfx_len > 1
    /\ last.pfx_len < Width

\* C14 (puncture frame): a successful puncture keeps every Frontier entry
\* other than the covering entry of its input, with its prefix and value and
\* in the same order, and keeps the PRGs and the input width; when the
\* covering prefix has the full length N nothing is appended, the Frontier
\* is the old one without that entry.
C14_PunctureFrame ==
    [][ last'.op = "puncture" /\ last'.err = "Ok" =>
          LET bv  == BitsOf(last'.input)
              cov == find_prefix(Self.key, bv).pfx
          IN /\ UNCHANGED <<prgs, inp_len, byte_bits>>
             /\ \A e \in Range(prefixes) : e # cov => e \in Range(prefixes')
             /\ \E idx \in 1..Len(prefixes) :
                    /\ prefixes[idx] = cov
                    /\ Len(prefixes') >= Len(prefixes) - 1
                    /\ \A j \in 1..Len(prefixes) :
                           /\ j < idx => prefixes'[j] = prefixes[j]
                           /\ j > idx => prefixes'[j - 1] = prefixes[j]
             /\ Len(cov[1]) = Width =>
                    /\ Replacements = <<>>
                    /\ Len(prefixes') = Len(prefixes) - 1
                    /\ Range(prefixes') = Range(prefixes) \ {cov}
      ]_vars

\* A leaf entry that an earlier puncture had created was punctured by an
\* exact match, and the other entries are still in the Frontier.
C14_Witness ==
    /\ last.op = "puncture"
    /\ last.err = "Ok"
    /\ Len(punctured) = 2
    /\ last.pfx_len = Width
    /\ Len(prefixes) = Width - 1

----------------------------------------------------------------------------
(* C15 *)

\* The Frontier with the entry e put back at place index.
InsertAt(v, index, e) ==
    SubSeq(v, 1, index - 1) \o <<e>> \o SubSeq(v, index, Len(v))

\* C15 (atomicity of the Frontier rewrite), in SpecConc: an eval of a live
\* input y that ran between a puncture's removal of the covering entry and
\* its insertion of the replacement entries, y under that covering prefix
\* and not the input being punctured, failed with NoPrefixFound; an eval of
\* a live input that ran while no puncture was between its two writes, as
\* all do when punctures exclude the other calls, succeeded with the output
\* derived from the secret.  The two writes together are the one puncture
\* of GGMPuncturableKey::puncture.
C15_Atomicity ==
    /\ last.op = "eval" /\ pending # NoPending
          /\ BitsOf(last.input) \notin PuncturedSet
          /\ BitsOf(last.input) # pending.to_punc
          /\ starts_with(BitsOf(last.input), pending.pfx[1]) =>
           /\ last.err = "NoPrefixFound"
           /\ last.output = <<>>
    /\ last.op = "eval" /\ pending = NoPending
          /\ BitsOf(last.input) \notin PuncturedSet =>
           /\ last.err = "Ok"
           /\ last.output = Derive(BitsOf(last.input))
    /\ pending # NoPending =>
           LET before == [prgs |-> prgs, punctured |-> punctured,
                          prefixes |-> InsertAt(prefixes, pending.index, pending.pfx)]
           IN GGMPuncturableKey_puncture(before, pending.pfx[1], pending.to_punc,
                                         pending.new_prefixes)
                  = [err |-> "Ok",
                     key |-> GGMPuncturableKey_puncture_insert(Self.key, pending.to_punc,
                                                               pending.new_prefixes)]

\* An eval of a live input ran between the two writes of a puncture of
\* another input under the same covering prefix, and failed.
C15_Witness ==
    /\ last.op = "eval"
    /\ pending # NoPending
    /\ BitsOf(last.input) \notin PuncturedSet
    /\ BitsOf(last.input) # pending.to_punc
    /\ starts_with(BitsOf(last.input), pending.pfx[1])
    /\ last.err = "NoPrefixFound"
    /\ Len(punctured) = 1

----------------------------------------------------------------------------
(* C16 *)

\* The number of GGMPseudorandomGenerator::eval applications that turn the
\* value inp into the value out: each application adds one key to the term.
PrgCalls(inp, out) == Len(out) - Len(inp)

\* The PRG applications of a puncture that found the covering value v: each
\* entry of new was computed by its own bit_eval call starting from v.
RECURSIVE PunctureCalls(_, _)
PunctureCalls(v, new) ==
    IF new = <<>> THEN 0
    ELSE PrgCalls(v, Head(new)[2]) + PunctureCalls(v, Tail(new))

\* C16 (work bound), as claimed: an eval that finds a covering prefix of
\* length L applies a PRG exactly N-L times, at most N; a puncture applies
\* a PRG at most N times in all.
C16_WorkBound ==
    [][ last'.op \in {"eval", "puncture"} /\ last'.err = "Ok" =>
          LET cov == find_prefix(Self.key, BitsOf(last'.input)).pfx
              L   == Len(cov[1])
          IN /\ last'.op = "eval" =>
                    /\ PrgCalls(cov[2], last'.output) = Width - L
                    /\ PrgCalls(cov[2], last'.output) <= Width
             /\ last'.op = "puncture" =>
                    PunctureCalls(cov[2], Replacements) <= Width
      ]_vars

\* C16 (work bound), amended: an eval that finds a covering prefix of length
\* L applies a PRG exactly N-L times, at most N; a puncture applies a PRG
\* k-L times for its entry of length k, each k in L+1..N, which is exactly
\* (N-L)(N-L+1)/2 times in all and at most N(N-1)/2.
C16_WorkExact ==
    [][ last'.op \in {"eval", "puncture"} /\ last'.err = "Ok" =>
          LET cov == find_prefix(Self.key, BitsOf(last'.input)).pfx
              L   == Len(cov[1])
              new == Replacements
          IN /\ last'.op = "eval" =>
                    /\ PrgCalls(cov[2], last'.output) = Width - L
                    /\ PrgCalls(cov[2], last'.output) <= Width
             /\ last'.op = "puncture" =>
                    /\ \A j \in 1..Len(new) :
                           PrgCalls(cov[2], new[j][2]) = Len(new[j][1]) - L
                    /\ 2 * PunctureCalls(cov[2], new) = (Width - L) * (Width - L + 1)
                    /\ 2 * PunctureCalls(cov[2], new) <= Width * (Width - 1)
      ]_vars

\* A puncture under a one-bit prefix made more than N PRG applications.
C16_Witness ==
    /\ last.op = "puncture"
    /\ last.err = "Ok"
    /\ last.pfx_len = 1
    /\ Len(prefixes) = Width
    /\ PunctureCalls(Derive(<<~BitsOf(last.input)[1]>>),
                     SubSeq(prefixes, 2, Width)) > Width

----------------------------------------------------------------------------
(* C17, C18 *)

\* The entries e and f are the two children of one node.
Siblings(e, f) ==
    /\ Len(e[1]) = Len(f[1])
    /\ SubSeq(e[1], 1, Len(e[1]) - 1) = SubSeq(f[1], 1, Len(f[1]) - 1)
    /\ e[1][Len(e[1])] # f[1][Len(f[1])]

\* C17 (Frontier minimality): the Frontier never holds both children of a
\* node other than the root, and under the parent of every entry longer
\* than one bit lies a punctured leaf: no two entries can be merged and no
\* entry can be replaced by its parent.
C17_Minimality ==
    /\ \A i, j \in 1..Len(prefixes) :
           Siblings(prefixes[i], prefixes[j]) => Len(prefixes[i][1]) = 1
    /\ \A i \in 1..Len(prefixes) :
           LET p == prefixes[i][1] IN
           /\ Len(p) >= 1
           /\ Len(p) >= 2 =>
                  \E x \in PuncturedSet : starts_with(x, SubSeq(p, 1, Len(p) - 1))

\* Both leaves of one parent were covered by one entry; one was punctured
\* and later its sibling leaf, whose entry left the Frontier without a
\* merge becoming possible.
C17_Witness ==
    /\ Len(punctured) = 2
    /\ SubSeq(punctured[1], 1, Width - 1) = SubSeq(punctured[2], 1, Width - 1)
    /\ \E i \in 1..Len(prefixes) : Len(prefixes[i][1]) = Width - 1
    /\ last = NoCall

\* C18 (no internal fault in sequential use): a call with an input of the
\* configured width ends Ok or with NoPrefixFound, the latter exactly when
\* find_prefix finds no covering prefix.  When it finds one, the sibling
\* loop ends without a panic and through its break, having pushed prefixes
\* of the lengths N down to L+1, and GGMPuncturableKey::puncture returns Ok.
C18_NoInternalFault ==
    [][ last'.op \in {"eval", "puncture"} /\ Len(last'.input) = inp_len =>
          LET bv  == BitsOf(last'.input)
              res == find_prefix(Self.key, bv)
              L   == Len(res.pfx[1])
          IN /\ last'.err \in {"Ok", "NoPrefixFound"}
             /\ last'.err = "NoPrefixFound" <=> ~res.ok
             /\ last'.op = "puncture" =>
                    last'.panic = IF res.ok THEN "" ELSE "No prefix found"
             /\ last'.op = "puncture" /\ res.ok =>
                    LET loop == IF L # Width
                                THEN sibling_loop(Self.key, res.pfx, Width - 1, bv, <<>>)
                                ELSE [panic |-> "", new_pfxs |-> <<>>]
                        new  == loop.new_pfxs
                    IN /\ loop.panic = ""
                       /\ Len(new) = Width - L
                       /\ \A j \in 1..Len(new) : Len(new[j][1]) = Width + 1 - j
                       /\ L # Width => Len(new[Len(new)][1]) = L + 1
                       /\ GGMPuncturableKey_puncture(Self.key, res.pfx[1], bv, new).err
                              = "Ok"
      ]_vars

\* Two punctures went through the sibling loop, each under a one-bit
\* prefix, and both calls of GGMPuncturableKey::puncture returned Ok.
C18_Witness ==
    /\ last.op = "puncture"
    /\ last.err = "Ok"
    /\ last.panic = ""
    /\ punct_len = <<1, 1>>

----------------------------------------------------------------------------
(* C19 *)

\* All tree nodes below the root (prefixes of length 1 to N).
Nodes == UNION {BitStrings(n) : n \in 1..Width}

\* The Frontier that belongs to a set S of punctured leaves, whatever the
\* order of the punctures: the nodes with no leaf of S below them whose
\* parent is the root or has a leaf of S below it, each with its derived
\* value.
FrontierOf(S) ==
    { <<p, Derive(p)>> : p \in
        { q \in Nodes :
            /\ \A x \in S : ~starts_with(x, q)
            /\ Len(q) = 1 \/ \E x \in S : starts_with(x, SubSeq(q, 1, Len(q) - 1)) } }

\* C19 (punctures commute): whenever a call can be made, puncturing two
\* distinct live inputs in either order succeeds and gives the same Frontier
\* as a set of entries and the same Punctured set; and the Frontier as a
\* set is then the one that belongs to the set of punctured leaves.
C19_PuncturesCommute ==
    /\ last = NoCall => Range(prefixes) = FrontierOf(PuncturedSet)
    /\ last = NoCall =>
           \A x, y \in ValidInputs :
               /\ x[1] < y[1]
               /\ BitsOf(x) \notin PuncturedSet
               /\ BitsOf(y) \notin PuncturedSet
               => LET xy == GGM_puncture(GGM_puncture(Self, byte_bits, x).self, byte_bits, y)
                      yx == GGM_puncture(GGM_puncture(Self, byte_bits, y).self, byte_bits, x)
                  IN /\ xy.err = "Ok"
                     /\ yx.err = "Ok"
                     /\ Range(xy.self.key.prefixes) = Range(yx.self.key.prefixes)
                     /\ Range(xy.self.key.punctured) = Range(yx.self.key.punctured)
                     /\ Range(xy.self.key.punctured)
                            = PuncturedSet \cup {BitsOf(x), BitsOf(y)}

\* Two leaves under one one-bit prefix were punctured, the one with the
\* larger byte first; the other order leaves the entries in another order.
C19_Witness ==
    /\ Len(punctured) = 2
    /\ punctured[1][1] = punctured[2][1]
    /\ last.op = "puncture"
    /\ last.err = "Ok"
    /\ \E x, y \in ValidInputs :
           /\ BitsOf(x) = punctured[2]
           /\ BitsOf(y) = punctured[1]
           /\ x[1] < y[1]
           /\ LET xy == GGM_puncture(GGM_puncture(FreshTree, byte_bits, x).self,
                                     byte_bits, y).self.key
              IN /\ xy.prefixes # prefixes
                 /\ Range(xy.prefixes) = Range(prefixes)

----------------------------------------------------------------------------
(* C20 *)

\* Every prefix of the Frontier pfxs has a length from 1 to N and there are
\* at most 2^(N-1) entries.
SizeOk(pfxs) ==
    /\ \A k \in 1..Len(pfxs) : Len(pfxs[k][1]) \in 1..Width
    /\ Len(pfxs) <= Pow2(Width - 1)

====
